---------------------------- MODULE Spec2Model ----------------------------
(***************************************************************************)
(* Model of the RAG tutorial notebooks:                                    *)
(*   - the metadata-filtering notebook with a self-hosted endpoint         *)
(*     (one_group_filter, retrieve_from_bedrock, format_prompt,            *)
(*     generate_response and the retrieve/format/generate cell),           *)
(*   - the guardrails notebook                                             *)
(*     (retrieve_and_generate_with_conditional_guardrails),                *)
(*   - the multi-model sweep loop,                                         *)
(*   - the cost and latency merge loop of the evaluation notebook,         *)
(*   - the configuration cells of the notebooks and the ContentHandler of  *)
(*     the query-decomposition notebook,                                   *)
(*   - the comparison cells of the foundation-models and the               *)
(*     query-decomposition notebooks.                                      *)
(* Text is a sequence of tokens, a JSON value is a tagged record, a Python *)
(* dict is a function from its keys, an exception is a record of its type  *)
(* and its message.  A behaviour is one kernel running one notebook; the   *)
(* variables of the other notebooks stay at their initial values.          *)
(***************************************************************************)
EXTENDS Integers, Sequences, FiniteSets, TLC

VARIABLES
    variables,          \* the configuration loaded from variables.json
    cfg,                \* the globals that the configuration cells bind
    notebook,           \* which notebook this kernel runs
    one_group_filter,   \* the notebook global of the "Define Metadata Filter" cell
    gen,                \* metadata-filtering notebook: the retrieve/format/generate cell
    guard,              \* guardrails notebook: the current call of the invoker
    sweep,              \* multi-model sweep loop
    eval,               \* evaluation notebook: the cost and latency merge loop
    fmt,                \* two applications of format_prompt, compared
    handler,            \* query-decomposition notebook: a call of llm through ContentHandler
    kernel              \* the globals and requests of the comparison cells (Lab 1)

vars == <<variables, cfg, notebook, one_group_filter, gen, guard, sweep, eval, fmt, handler, kernel>>

-----------------------------------------------------------------------------
(* Bounds of the model *)

MaxStrLen == 1      \* longest query or context string, in characters
MaxCtxLen == 2      \* longest context list
MaxListLen == 2     \* longest list in an endpoint response
MaxRuns == 2        \* runs of the retrieve/format/generate cell
MaxCalls == 2       \* calls of retrieve_and_generate_with_conditional_guardrails
MaxModels == 3      \* longest inference_models list
MaxCellRuns == 2    \* runs of the comparison cells of a notebook

-----------------------------------------------------------------------------
(* Python values *)

\* every value is tagged with its kind, so that values of different kinds compare
None == [kind |-> "None", val |-> <<>>]
Unbound == [kind |-> "unbound", val |-> <<>>]   \* a name that no cell has assigned yet
PyDict(f) == [kind |-> "dict", val |-> f]
PyStr(s) == [kind |-> "str", val |-> s]
EmptyDict == PyDict(<<>>)

\* Python truthiness: None, "" and {} are false
Truthy(v) ==
    CASE v.kind = "None" -> FALSE
      [] v.kind = "str"  -> v # PyStr("")
      [] v.kind = "dict" -> DOMAIN v.val # {}
      [] OTHER           -> TRUE

\* how a call ends: it returns a value or an exception escapes it
Returned(v) == [kind |-> "returned", val |-> v]
Raised(e) == [kind |-> "raised", val |-> e]
NoOutcome == [kind |-> "none", val |-> <<>>]

Exception(t, m) == [type |-> t, msg |-> m]

\* the errors an external service call can raise (botocore)
ServiceErrors ==
    { Exception("ClientError", <<"ThrottlingException">>),
      Exception("ClientError", <<"AccessDeniedException">>),
      Exception("EndpointConnectionError", <<"Could not connect">>) }

\* s occurs in t as a contiguous run of tokens (Python: s in t, for text)
Contains(t, s) ==
    \E i \in 0..(Len(t) - Len(s)) : SubSeq(t, i + 1, i + Len(s)) = s

RECURSIVE SeqsUpTo(_, _)
SeqsUpTo(S, n) ==
    IF n = 0 THEN {<<>>}
    ELSE LET shorter == SeqsUpTo(S, n - 1)
         IN  shorter \cup {Append(s, x) : s \in {t \in shorter : Len(t) = n - 1}, x \in S}

IsInjectiveSeq(s) == \A i, j \in 1..Len(s) : s[i] = s[j] => i = j

-----------------------------------------------------------------------------
(* The metadata filter *)

IntValue(digits) == <<"int", digits>>
StrValue(text) == <<"str", text>>

\* the literal with its second clause left out
OneGroupFilterLiteral_OneClause ==
    PyDict(
    [andAll |-> << [equals |-> [key |-> "docType", value |-> StrValue("10K Report")]] >>])

\* one_group_filter = {"andAll": [{"equals": {...}}, {"equals": {...}}]}
OneGroupFilterLiteral ==
    PyDict(
    [andAll |-> << [equals |-> [key |-> "docType", value |-> StrValue("10K Report")]],
                   [equals |-> [key |-> "year", value |-> IntValue("2023")]] >>])


-----------------------------------------------------------------------------
(* JSON values, as json.loads returns them for the endpoint's response body *)

JDict(f) == [kind |-> "dict", val |-> f]
JList(s) == [kind |-> "list", val |-> s]
JStr(toks) == [kind |-> "str", val |-> toks]
JNum == [kind |-> "num", val |-> <<>>]
JNull == [kind |-> "null", val |-> <<>>]

Texts == {"X", "Y"}
FieldNames == {"generated_text", "generation", "other"}
ElemFieldNames == {"generated_text", "generation"}

DictsOver(names) == UNION {[D -> Texts] : D \in SUBSET names}

JStrs == {JStr(t) : t \in SeqsUpTo({"generated_text", "generation", "x"}, 1)}
JElems == {JDict(f) : f \in DictsOver(ElemFieldNames)} \cup {JStr(<<"x">>), JNum}
JLists == {JList(s) : s \in SeqsUpTo(JElems, MaxListLen)}
JDicts == {JDict(f) : f \in DictsOver(FieldNames)}

\* every parsed endpoint response of the model
EndpointResults == JDicts \cup JLists \cup JStrs \cup {JNum, JNull}

-----------------------------------------------------------------------------
(* generate_response: the response-field resolver *)

IndexError == Exception("IndexError", <<"list index out of range">>)
KeyError(k) == Exception("KeyError", <<"'", k, "'">>)
TypeError == Exception("TypeError", <<"unsupported operand">>)
UnexpectedFormat == Exception("RuntimeError", <<"Unexpected response format">>)

\* Python: key in v
PyIn(key, v) ==
    CASE v.kind = "dict" -> Returned(key \in DOMAIN v.val)
      [] v.kind = "str"  -> Returned(Contains(v.val, <<key>>))
      [] v.kind = "list" -> Returned(\E i \in 1..Len(v.val) : v.val[i] = JStr(<<key>>))
      [] OTHER           -> Raised(TypeError)

\* Python: v[key], key a string
PySubscript(v, key) ==
    IF v.kind = "dict"
      THEN IF key \in DOMAIN v.val THEN Returned(v.val[key]) ELSE Raised(KeyError(key))
      ELSE Raised(TypeError)

\* the broken resolver: 'generation' is probed before 'generated_text'
ResolveField_GenerationFirst(result) ==
    IF result.kind = "list"
      THEN IF Len(result.val) = 0 THEN Raised(IndexError)
           ELSE PySubscript(result.val[1], "generated_text")
      ELSE LET hasGeneration == PyIn("generation", result)
               hasText == PyIn("generated_text", result)
           IN  IF hasGeneration.kind = "raised" THEN hasGeneration
               ELSE IF hasGeneration.val THEN PySubscript(result, "generation")
               ELSE IF hasText.val THEN PySubscript(result, "generated_text")
               ELSE Raised(UnexpectedFormat)

\* a list is resolved through its last element
ResolveField_LastElement(result) ==
    IF result.kind = "list"
      THEN IF Len(result.val) = 0 THEN Raised(IndexError)
           ELSE PySubscript(result.val[Len(result.val)], "generated_text")
      ELSE LET hasText == PyIn("generated_text", result)
               hasGeneration == PyIn("generation", result)
           IN  IF hasText.kind = "raised" THEN hasText
               ELSE IF hasText.val THEN PySubscript(result, "generated_text")
               ELSE IF hasGeneration.val THEN PySubscript(result, "generation")
               ELSE Raised(UnexpectedFormat)

\* the if/elif chain on the parsed result
ResolveField(result) ==
    IF result.kind = "list"
      THEN IF Len(result.val) = 0 THEN Raised(IndexError)
           ELSE PySubscript(result.val[1], "generated_text")
      ELSE LET hasText == PyIn("generated_text", result)
               hasGeneration == PyIn("generation", result)
           IN  IF hasText.kind = "raised" THEN hasText
               ELSE IF hasText.val THEN PySubscript(result, "generated_text")
               ELSE IF hasGeneration.val THEN PySubscript(result, "generation")
               ELSE Raised(UnexpectedFormat)

\* except Exception as e: raise RuntimeError(f"<prefix>{str(e)}")
Wrap(prefix, e) == Exception("RuntimeError", <<prefix>> \o e.msg)

GenerationFailed == "Generation failed: "
RetrievalFailed == "Bedrock retrieval failed: "

-----------------------------------------------------------------------------
(* format_prompt *)

NL == "\n        "         \* a line break and the indentation of the template
NL4 == "\n    "
Whitespace == {" ", NL, NL4}

RECURSIVE Join(_, _)
Join(sep, list) ==
    IF Len(list) = 0 THEN <<>>
    ELSE IF Len(list) = 1 THEN list[1]
    ELSE list[1] \o <<sep>> \o Join(sep, Tail(list))

RECURSIVE LStrip(_)
LStrip(s) == IF Len(s) > 0 /\ s[1] \in Whitespace THEN LStrip(Tail(s)) ELSE s

RECURSIVE RStrip(_)
RStrip(s) ==
    IF Len(s) > 0 /\ s[Len(s)] \in Whitespace THEN RStrip(SubSeq(s, 1, Len(s) - 1)) ELSE s

Strip(s) == RStrip(LStrip(s))

system_prompt(context) ==
    <<"Use the following context to answer the question. If you don't know the answer, say 'I don't know'.",
      NL, "Context:", NL>> \o Join(" ", context) \o <<"\"", NL4>>

format_prompt(query, context) ==
    Strip(<<NL, "<|begin_of_text|>", NL, "<|start_header_id|>system<|end_header_id|>", NL>>
          \o system_prompt(context)
          \o <<NL, "<|start_header_id|>user<|end_header_id|>", NL, "Question: ">>
          \o query
          \o <<NL, "<|start_header_id|>assistant<|end_header_id|>", NL>>)

Chars == {"a", " "}
Strings == SeqsUpTo(Chars, MaxStrLen)
Contexts == SeqsUpTo(Strings, MaxCtxLen)

-----------------------------------------------------------------------------
(* The metadata-filtering notebook: the filter cell and the                 *)
(* retrieve -> format_prompt -> generate_response cell                      *)

NUM_RESULTS == 3
KNOWLEDGE_BASE_ID == "kbFixedChunk"
ENDPOINT_NAME == "sagemakerLLMEndpoint"

GenQueries == {<<"a">>, <<"a", " ">>}
GenContexts == {<<>>, << <<"a">> >>, << <<"a">>, <<" ">> >>}

NameError(name) == Exception("NameError", <<"name '", name, "' is not defined">>)

GenIdle ==
    [pc |-> "idle", runs |-> 0, query |-> <<>>, context |-> <<>>, prompt |-> <<>>,
     request |-> None, retrieveCalls |-> 0, endpointCalls |-> 0,
     result |-> None, error |-> None, outcome |-> NoOutcome]

-----------------------------------------------------------------------------
(* Configuration: variables.json and the cells that read it *)

Regions == {"us-west-2", "us-east-1"}
HardCodedRegion == "us-west-2"

\* variables.json as the setup notebook writes it for a region
FullConfig(region) ==
    [regionName |-> region,
     accountNumber |-> "123456789012",
     kbFixedChunk |-> KNOWLEDGE_BASE_ID,
     kbSemanticChunk |-> "kbSemanticChunk",
     sagemakerLLMEndpoint |-> ENDPOINT_NAME,
     guardrail_id |-> "gr-1",
     guardrail_version |-> "1",
     s3_ground_truth_path |-> "s3://bucket/gt.json",
     bedrockExecutionRoleArn |-> "arn:aws:iam::123456789012:role/bedrock"]

\* the dict without the key k
Without(v, k) == [key \in DOMAIN v \ {k} |-> v[key]]

\* the keys a notebook reads with variables[...] before its first request, in order
ReadKeys(nb) ==
    CASE nb = "guardrails" ->
             <<"accountNumber", "kbFixedChunk", "guardrail_version", "guardrail_id">>
      [] nb = "metadata_filtering" -> <<"kbFixedChunk", "regionName", "sagemakerLLMEndpoint">>
      [] nb = "foundation_models" -> <<"kbFixedChunk", "accountNumber", "regionName">>
      [] nb = "query_decomposition" ->
             <<"kbSemanticChunk", "accountNumber", "regionName", "sagemakerLLMEndpoint">>
      [] nb = "sweep" -> <<"kbFixedChunk", "s3_ground_truth_path", "regionName">>
      [] nb = "evaluation" -> <<"regionName">>
      [] OTHER -> <<>>

\* the key the sweep loop reads in every iteration
LoopKey == "bedrockExecutionRoleArn"

\* a missing key is read as a default value (dict.get)
Lookup_Default(v, key) ==
    IF key \in DOMAIN v THEN Returned(v[key]) ELSE Returned("default")

\* variables[key]
Lookup(v, key) ==
    IF key \in DOMAIN v THEN Returned(v[key]) ELSE Raised(KeyError(key))

\* the outcome of the first lookup that raises, if one does
FirstRaised(keys, v) ==
    LET raising == {i \in 1..Len(keys) : Lookup(v, keys[i]).kind = "raised"}
    IN  IF raising = {} THEN NoOutcome
        ELSE Lookup(v, keys[CHOOSE i \in raising : \A j \in raising : i <= j])

Arn(region, account, resource) ==
    [partition |-> "aws", service |-> "bedrock", region |-> region,
     account |-> account, resource |-> resource]

\* boto3.client("bedrock-agent-runtime", region_name=...)
Client(nb, v) ==
    [service |-> "bedrock-agent-runtime",
     region_name |-> IF nb = "guardrails" THEN HardCodedRegion
                     ELSE Lookup(v, "regionName").val]

\* model_arn / model_id: f"arn:aws:bedrock:us-west-2:{accountNumber}:inference-profile/..."
ModelArn(nb, v) ==
    CASE nb = "guardrails" ->
             Arn(HardCodedRegion, Lookup(v, "accountNumber").val,
                 <<"inference-profile", "us.amazon.nova-pro-v1:0">>)
      [] nb \in {"foundation_models", "query_decomposition"} ->
             Arn(HardCodedRegion, Lookup(v, "accountNumber").val,
                 <<"inference-profile", "us.amazon.nova-lite-v1:0">>)
      [] OTHER -> None

\* guardrail_arn = f'arn:aws:bedrock:us-west-2:{accountNumber}:guardrail/{guardrail_id}'
GuardrailArn(nb, v) ==
    IF nb = "guardrails"
      THEN Arn(HardCodedRegion, Lookup(v, "accountNumber").val,
               <<"guardrail", Lookup(v, "guardrail_id").val>>)
      ELSE None

CfgUnread ==
    [pc |-> "unread", client |-> None, model_arn |-> None, guardrail_arn |-> None,
     outcome |-> NoOutcome]

\* the configuration cells of a notebook, run in order up to the first error
ConfigCells(nb, v) ==
    LET failure == FirstRaised(ReadKeys(nb), v)
    IN  IF failure.kind = "raised"
          THEN [CfgUnread EXCEPT !.pc = "raised", !.outcome = failure]
          ELSE [pc |-> "bound", client |-> Client(nb, v), model_arn |-> ModelArn(nb, v),
                guardrail_arn |-> GuardrailArn(nb, v), outcome |-> NoOutcome]

\* the configurations a notebook may find: complete, or with one of its keys missing
Configs(nb) ==
    {FullConfig(r) : r \in Regions}
        \cup {Without(FullConfig(HardCodedRegion), ReadKeys(nb)[i]) : i \in 1..Len(ReadKeys(nb))}

\* the notebooks whose configuration cells are steps of the model
ConfiguredNotebooks ==
    {"metadata_filtering", "guardrails", "foundation_models", "query_decomposition"}

\* the notebooks that compare two retrieve_and_generate requests
ComparisonNotebooks == {"foundation_models", "query_decomposition"}

\* generation_configuration = {'inferenceConfig': {'textInferenceConfig': {...}}}
generation_configuration(nb) ==
    [inferenceConfig |->
        [textInferenceConfig |->
            IF nb = "foundation_models"
              THEN [maxTokens |-> 4096, stopSequences |-> <<>>,
                    temperature |-> "0.2", topP |-> "0.5"]
              ELSE [maxTokens |-> 1024, stopSequences |-> <<>>,
                    temperature |-> "0.0", topP |-> "0.2"]]]

\* query of the last cell before "Improve RAG quality with Enhanced Prompts"
NuancedQuery == "How much did net income change? Show me how you did the math."
\* query = "Show me the amazon financial results for 2023"
ResultsQuery == "Show me the amazon financial results for 2023"
\* query of both query-decomposition cells
CompoundQuery == "Operating Income 2022? What is text-to-SQL? How did it contribute?"
\* prompt_template = """You are a professional financial analyst. ... $search_results$"""
prompt_template == "You are a professional financial analyst. $Query$ $search_results$"

KernelUnbound ==
    [pc |-> "unbound", kb_id |-> Unbound, model_id |-> Unbound,
     number_of_results |-> Unbound, generation_configuration |-> Unbound,
     query |-> Unbound, prompt_template |-> Unbound, response |-> Unbound,
     sent |-> <<>>]

\* the globals of a comparison notebook when its comparison section begins:
\* the cells above it have run in order
Globals(nb, v) ==
    [pc |-> "ready",
     kb_id |-> PyStr(Lookup(v, "kbSemanticChunk").val),
     model_id |-> ModelArn(nb, v),
     number_of_results |-> 5,
     generation_configuration |-> generation_configuration(nb),
     query |-> IF nb = "foundation_models" THEN PyStr(NuancedQuery) ELSE Unbound,
     prompt_template |-> IF nb = "foundation_models" THEN PyStr(prompt_template)
                         ELSE Unbound,
     response |-> Unbound,
     sent |-> <<>>]

\* the globals the configuration cells leave behind
KernelAfter(nb, v) ==
    IF nb \in ComparisonNotebooks /\ FirstRaised(ReadKeys(nb), v).kind # "raised"
      THEN Globals(nb, v)
      ELSE KernelUnbound

\* the cells read their keys with pop, which removes them from variables
Configure_Pop ==
    /\ notebook \in ConfiguredNotebooks
    /\ cfg.pc = "unread"
    /\ cfg' = ConfigCells(notebook, variables)
    /\ kernel' = KernelAfter(notebook, variables)
    /\ variables' = Without(variables, ReadKeys(notebook)[1])
    /\ UNCHANGED <<notebook, one_group_filter, gen, guard, sweep, eval, fmt, handler>>

\* the configuration cells run
Configure ==
    /\ notebook \in ConfiguredNotebooks
    /\ cfg.pc = "unread"
    /\ cfg' = ConfigCells(notebook, variables)
    /\ kernel' = KernelAfter(notebook, variables)
    /\ UNCHANGED <<variables, notebook, one_group_filter, gen, guard, sweep, eval, fmt, handler>>

-----------------------------------------------------------------------------
(* The cells of the metadata-filtering notebook *)

\* the cell "Define Metadata Filter" (the same literal in both notebooks)
DefineMetadataFilter ==
    /\ notebook \in {"metadata_filtering", "guardrails"}
    /\ one_group_filter = Unbound
    /\ one_group_filter' = OneGroupFilterLiteral
    /\ UNCHANGED <<variables, cfg, notebook, gen, guard, sweep, eval, fmt, handler, kernel>>

\* the arguments of bedrock_agent_runtime.retrieve
RetrieveRequest(query) ==
    [op |-> "retrieve",
     knowledgeBaseId |-> KNOWLEDGE_BASE_ID,
     text |-> query,
     numberOfResults |-> NUM_RESULTS,
     filter |-> one_group_filter]

\* the arguments of runtime.invoke_endpoint
InvokeRequest(prompt) ==
    [op |-> "invoke_endpoint", EndpointName |-> ENDPOINT_NAME, inputs |-> prompt]

\* retrieve_from_bedrock without its except clause: the error escapes as it is
RetrieveExcept_Raw(e) == Raised(e)

\* retrieve_from_bedrock: except Exception as e: raise RuntimeError(...)
RetrieveExcept(e) == Raised(Wrap(RetrievalFailed, e))

\* generate_response without its except clause
GenerateExcept_Raw(e) == Raised(e)

\* generate_response: except Exception as e: raise RuntimeError(...)
GenerateExcept(e) == Raised(Wrap(GenerationFailed, e))

\* the cell starts: retrieve_from_bedrock(query) builds its request and sends it
RunCell(query) ==
    /\ notebook = "metadata_filtering"
    /\ cfg.pc = "bound"
    /\ gen.pc \in {"idle", "done", "failed"}
    /\ gen.runs < MaxRuns
    /\ IF one_group_filter = Unbound
         THEN gen' = [GenIdle EXCEPT !.pc = "failed", !.runs = gen.runs + 1,
                                     !.query = query,
                                     !.error = NameError("one_group_filter"),
                                     !.outcome = RetrieveExcept(NameError("one_group_filter"))]
         ELSE gen' = [GenIdle EXCEPT !.pc = "retrieving", !.runs = gen.runs + 1,
                                     !.query = query,
                                     !.request = RetrieveRequest(query),
                                     !.retrieveCalls = 1]
    /\ UNCHANGED <<variables, cfg, notebook, one_group_filter, guard, sweep, eval, fmt, handler, kernel>>

\* retrieve answers; the cell formats the prompt and generate_response sends it
RetrieveReturns(context) ==
    /\ gen.pc = "retrieving"
    /\ gen' = [gen EXCEPT !.pc = "generating",
                          !.context = context,
                          !.prompt = format_prompt(gen.query, context),
                          !.request = InvokeRequest(format_prompt(gen.query, context)),
                          !.endpointCalls = gen.endpointCalls + 1]
    /\ UNCHANGED <<variables, cfg, notebook, one_group_filter, guard, sweep, eval, fmt, handler, kernel>>

\* retrieve fails and is sent once more before the error is raised
RetrieveRaises_Retry(e) ==
    /\ gen.pc = "retrieving"
    /\ IF gen.retrieveCalls < 2
         THEN gen' = [gen EXCEPT !.retrieveCalls = gen.retrieveCalls + 1]
         ELSE gen' = [gen EXCEPT !.pc = "failed", !.error = e, !.outcome = RetrieveExcept(e)]
    /\ UNCHANGED <<variables, cfg, notebook, one_group_filter, guard, sweep, eval, fmt, handler, kernel>>

\* retrieve fails; retrieve_from_bedrock raises and the cell stops
RetrieveRaises(e) ==
    /\ gen.pc = "retrieving"
    /\ gen' = [gen EXCEPT !.pc = "failed", !.error = e, !.outcome = RetrieveExcept(e)]
    /\ UNCHANGED <<variables, cfg, notebook, one_group_filter, guard, sweep, eval, fmt, handler, kernel>>

\* the endpoint answers with a body that parses to `result`
EndpointReturns(result) ==
    /\ gen.pc = "generating"
    /\ LET out == ResolveField(result)
       IN  gen' = [gen EXCEPT
                     !.pc = IF out.kind = "returned" THEN "done" ELSE "failed",
                     !.result = result,
                     !.error = IF out.kind = "raised" THEN out.val ELSE None,
                     !.outcome = IF out.kind = "raised" THEN GenerateExcept(out.val) ELSE out]
    /\ UNCHANGED <<variables, cfg, notebook, one_group_filter, guard, sweep, eval, fmt, handler, kernel>>

\* invoke_endpoint fails
EndpointRaises(e) ==
    /\ gen.pc = "generating"
    /\ gen' = [gen EXCEPT !.pc = "failed", !.error = e, !.outcome = GenerateExcept(e)]
    /\ UNCHANGED <<variables, cfg, notebook, one_group_filter, guard, sweep, eval, fmt, handler, kernel>>

-----------------------------------------------------------------------------
(* The guardrails notebook: retrieve_and_generate_with_conditional_guardrails *)

GUARD_NUM_RESULTS == 5
TextPromptTemplate ==
    "Answer the following question based on the context:\n$search_results$\n\nQuestion: {question}"

ValueErrorGuardrailId ==
    Exception("ValueError", <<"guardrail_id is required when use_guardrails is True">>)

OtherFilter == PyDict([equals |-> [key |-> "year", value |-> IntValue("2024")]])

\* the filters a caller may pass: none, an empty one, the notebook's, another
FilterArgs ==
    {None, EmptyDict, OtherFilter} \cup (IF one_group_filter = Unbound THEN {} ELSE {one_group_filter})

\* the positional arguments of a call: query, knowledge_base_id, model_arn
CallSites ==
    { <<"should I buy amazon stock?", "kbFixedChunk",
        "arn:inference-profile/us.amazon.nova-pro-v1:0">>,
      <<"Who is the current CFO of Amazon?", "kbSemanticChunk",
        "arn:inference-profile/us.amazon.nova-lite-v1:0">> }

GuardArgs ==
    { [query |-> site[1],
       knowledge_base_id |-> site[2],
       model_arn |-> site[3],
       metadata_filter |-> mf,
       use_guardrails |-> ug,
       guardrail_id |-> gid,
       guardrail_version |-> gv] :
          site \in CallSites, mf \in FilterArgs, ug \in BOOLEAN,
          gid \in {None, PyStr(""), PyStr("gr-1")},
          gv \in {None, PyStr(""), PyStr("1")} }

\* what the retrieve_and_generate service may answer
RagResponses ==
    [output : [text : {"answer", "This request cannot be processed"}],
     citations : {<<>>, <<"chunk-1">>}]

\* the filter is added whenever the argument is not None
VectorSearchConfiguration_IfNotNone(a) ==
    IF a.metadata_filter # None
      THEN [numberOfResults |-> GUARD_NUM_RESULTS, filter |-> a.metadata_filter]
      ELSE [numberOfResults |-> GUARD_NUM_RESULTS]

\* "Add metadata filter if provided": if metadata_filter:
VectorSearchConfiguration(a) ==
    IF Truthy(a.metadata_filter)
      THEN [numberOfResults |-> GUARD_NUM_RESULTS, filter |-> a.metadata_filter]
      ELSE [numberOfResults |-> GUARD_NUM_RESULTS]

guardrail_config(a) ==
    IF Truthy(a.guardrail_version)
      THEN [guardrailId |-> a.guardrail_id, guardrailVersion |-> a.guardrail_version]
      ELSE [guardrailId |-> a.guardrail_id]

\* the guardrail configuration is added whenever a guardrail_id is given
GenerationConfiguration_IfIdGiven(a) ==
    IF Truthy(a.guardrail_id)
      THEN [promptTemplate |-> [textPromptTemplate |-> TextPromptTemplate],
            guardrailConfiguration |-> guardrail_config(a)]
      ELSE [promptTemplate |-> [textPromptTemplate |-> TextPromptTemplate]]

\* generationConfiguration, with guardrailConfiguration added "only if requested"
GenerationConfiguration(a) ==
    IF a.use_guardrails
      THEN [promptTemplate |-> [textPromptTemplate |-> TextPromptTemplate],
            guardrailConfiguration |-> guardrail_config(a)]
      ELSE [promptTemplate |-> [textPromptTemplate |-> TextPromptTemplate]]

\* the knowledge base is the notebook's global, not the argument
kb_config_GlobalKb(a) ==
    [knowledgeBaseId |-> KNOWLEDGE_BASE_ID,
     modelArn |-> a.model_arn,
     retrievalConfiguration |-> [vectorSearchConfiguration |-> VectorSearchConfiguration(a)],
     generationConfiguration |-> GenerationConfiguration(a)]

kb_config(a) ==
    [knowledgeBaseId |-> a.knowledge_base_id,
     modelArn |-> a.model_arn,
     retrievalConfiguration |-> [vectorSearchConfiguration |-> VectorSearchConfiguration(a)],
     generationConfiguration |-> GenerationConfiguration(a)]

\* kb_config is one dict shared by all calls: what an earlier call added to
\* generationConfiguration is still there
RetrieveAndGenerateRequest_SharedConfig(a) ==
    LET earlier == IF guard.request = None
                     THEN <<>>
                     ELSE guard.request.retrieveAndGenerateConfiguration
                              .knowledgeBaseConfiguration.generationConfiguration
    IN  [input |-> [text |-> a.query],
         retrieveAndGenerateConfiguration |->
             [type |-> "KNOWLEDGE_BASE",
              knowledgeBaseConfiguration |->
                  [kb_config(a) EXCEPT
                     !.generationConfiguration = GenerationConfiguration(a) @@ earlier]]]

\* the arguments of bedrock_agent_runtime.retrieve_and_generate
RetrieveAndGenerateRequest(a) ==
    [input |-> [text |-> a.query],
     retrieveAndGenerateConfiguration |->
         [type |-> "KNOWLEDGE_BASE", knowledgeBaseConfiguration |-> kb_config(a)]]

\* the function returns only the answer text
ReturnResponse_TextOnly(response) == Returned([output |-> response.output])

\* return response
ReturnResponse(response) == Returned(response)

\* the call is not inside a try: the service error escapes as it is
GuardExcept(e) == Raised(e)

\* what the call before this one asked for (kept to state properties of call sequences)
NoEarlierCall == [guardrails |-> FALSE, filter |-> FALSE]
EarlierCall ==
    IF guard.args = None THEN NoEarlierCall
    ELSE [guardrails |-> guard.args.use_guardrails,
          filter |-> Truthy(guard.args.metadata_filter)]

GuardIdle ==
    [pc |-> "idle", calls |-> 0, args |-> None, request |-> None, apiCalls |-> 0,
     response |-> None, error |-> None, outcome |-> NoOutcome, earlier |-> NoEarlierCall]

\* only a guardrail_id of None is rejected
GuardrailIdMissing_NoneOnly(a) == a.use_guardrails /\ a.guardrail_id = None

\* if use_guardrails: if not guardrail_id: raise ValueError(...)
GuardrailIdMissing(a) == a.use_guardrails /\ ~Truthy(a.guardrail_id)

\* a cell calls the function; it validates, builds kb_config and sends the request
GuardInvoke(a) ==
    /\ notebook = "guardrails"
    /\ cfg.pc = "bound"
    /\ guard.pc \in {"idle", "returned", "raised"}
    /\ guard.calls < MaxCalls
    /\ IF GuardrailIdMissing(a)
         THEN guard' = [GuardIdle EXCEPT !.pc = "raised", !.calls = guard.calls + 1,
                                         !.args = a,
                                         !.earlier = EarlierCall,
                                         !.outcome = Raised(ValueErrorGuardrailId)]
         ELSE guard' = [GuardIdle EXCEPT !.pc = "awaiting", !.calls = guard.calls + 1,
                                         !.args = a,
                                         !.earlier = EarlierCall,
                                         !.request = RetrieveAndGenerateRequest(a),
                                         !.apiCalls = 1]
    /\ UNCHANGED <<variables, cfg, notebook, one_group_filter, gen, sweep, eval, fmt, handler, kernel>>

\* the service answers and the function returns
ServiceResponds(response) ==
    /\ guard.pc = "awaiting"
    /\ guard' = [guard EXCEPT !.pc = "returned", !.response = response,
                              !.outcome = ReturnResponse(response)]
    /\ UNCHANGED <<variables, cfg, notebook, one_group_filter, gen, sweep, eval, fmt, handler, kernel>>

\* the service call raises
ServiceRaises(e) ==
    /\ guard.pc = "awaiting"
    /\ guard' = [guard EXCEPT !.pc = "raised", !.error = e, !.outcome = GuardExcept(e)]
    /\ UNCHANGED <<variables, cfg, notebook, one_group_filter, gen, sweep, eval, fmt, handler, kernel>>

-----------------------------------------------------------------------------
(* The multi-model sweep loop *)

ModelIds == {"us.amazon.nova-lite-v1:0", "us.amazon.nova-pro-v1:0",
             "us.anthropic.claude-3-5-haiku-20241022-v1:0"}
ResponseLists == {"responses-1", "responses-2"}
CallPlans == {"ok", "create_raises", "rag_raises"}

Range(s) == {s[i] : i \in 1..Len(s)}

\* a Python dict that keeps the order in which its keys were inserted
EmptyOrderedDict == [keys |-> <<>>, vals |-> <<>>]
DictSet(d, k, v) ==
    [keys |-> IF k \in Range(d.keys) THEN d.keys ELSE Append(d.keys, k),
     vals |-> (k :> v) @@ d.vals]

\* the result file does not exist
NoFile == [kind |-> "absent", val |-> <<>>]

\* json.dump(d, f, ...): the members of the JSON object, in the order of the keys
JsonDump(d) ==
    [kind |-> "json", val |-> [i \in 1..Len(d.keys) |-> <<d.keys[i], d.vals[d.keys[i]]>>]]

\* the cell before it runs; plan[i] is how the calls of iteration i will end
SweepInit(models, plan) ==
    [pc |-> "ready", inference_models |-> models, plan |-> plan, i |-> 0,
     inferencer |-> None, rag_response_dict |-> EmptyOrderedDict,
     calls |-> <<>>, inFlight |-> 0, outcome |-> NoOutcome, file |-> NoFile]

SweepIdle == SweepInit(<<>>, <<>>)

\* rag_response_dict = {} and the for statement is entered
SweepStart ==
    /\ notebook = "sweep"
    /\ sweep.pc = "ready"
    /\ sweep' = [sweep EXCEPT !.pc = "loop", !.i = 1,
                              !.rag_response_dict = EmptyOrderedDict]
    /\ UNCHANGED <<variables, cfg, notebook, one_group_filter, gen, guard, eval, fmt, handler, kernel>>

\* an exception of a call is not caught: it ends the loop and the cell
SweepAbort(e) ==
    sweep' = [sweep EXCEPT !.pc = "aborted", !.inFlight = 0, !.outcome = Raised(e)]

\* the next model is taken at once, while the result is not stored yet
StoreResponses_Skip(model, responses) == sweep.rag_response_dict

\* rag_response_dict[inference_model] = responses
StoreResponses(model, responses) == DictSet(sweep.rag_response_dict, model, responses)

\* every iteration uses the inferencer of the first model
CreatedInferencer_First(model, iteration) ==
    [model |-> sweep.inference_models[1], iteration |-> iteration]

\* what create_inferencer_provider returns for inference_model
CreatedInferencer(model, iteration) == [model |-> model, iteration |-> iteration]

\* the head of the for loop: the next model, or the end of the list
LoopHead ==
    /\ sweep.pc = "loop"
    /\ IF sweep.i > Len(sweep.inference_models)
         THEN sweep' = [sweep EXCEPT !.pc = "done"]
         ELSE IF Lookup(variables, LoopKey).kind = "raised"
           THEN SweepAbort(Lookup(variables, LoopKey).val)
           ELSE sweep' = [sweep EXCEPT !.pc = "creating", !.inFlight = sweep.inFlight + 1]
    /\ UNCHANGED <<variables, cfg, notebook, one_group_filter, gen, guard, eval, fmt, handler, kernel>>

\* create_inferencer_provider returns; rag_with_flotorch is called with the inferencer
CreateReturns ==
    /\ sweep.pc = "creating"
    /\ sweep.plan[sweep.i] # "create_raises"
    /\ LET model == sweep.inference_models[sweep.i]
           inferencer == CreatedInferencer(model, sweep.i)
       IN  sweep' = [sweep EXCEPT
                       !.pc = "running",
                       !.inferencer = inferencer,
                       !.calls = Append(sweep.calls,
                                        [pos |-> sweep.i, model |-> model,
                                         inferencer |-> inferencer, responses |-> "pending"])]
    /\ UNCHANGED <<variables, cfg, notebook, one_group_filter, gen, guard, eval, fmt, handler, kernel>>

\* create_inferencer_provider raises
CreateRaises(e) ==
    /\ sweep.pc = "creating"
    /\ sweep.plan[sweep.i] = "create_raises"
    /\ SweepAbort(e)
    /\ UNCHANGED <<variables, cfg, notebook, one_group_filter, gen, guard, eval, fmt, handler, kernel>>

\* the responses arrive but the loop is not resumed
RagReturns_NotResumed(responses) ==
    /\ sweep.pc = "running"
    /\ sweep.plan[sweep.i] = "ok"
    /\ sweep' = [sweep EXCEPT !.calls[Len(sweep.calls)].responses = responses]
    /\ UNCHANGED <<variables, cfg, notebook, one_group_filter, gen, guard, eval, fmt, handler, kernel>>

\* rag_with_flotorch returns the responses, which are stored under the model
RagReturns(responses) ==
    /\ sweep.pc = "running"
    /\ sweep.plan[sweep.i] = "ok"
    /\ LET model == sweep.inference_models[sweep.i]
       IN  sweep' = [sweep EXCEPT
                       !.pc = "loop",
                       !.i = sweep.i + 1,
                       !.inFlight = sweep.inFlight - 1,
                       !.calls[Len(sweep.calls)].responses = responses,
                       !.rag_response_dict = StoreResponses(model, responses)]
    /\ UNCHANGED <<variables, cfg, notebook, one_group_filter, gen, guard, eval, fmt, handler, kernel>>

\* rag_with_flotorch raises
RagRaises(e) ==
    /\ sweep.pc = "running"
    /\ sweep.plan[sweep.i] = "rag_raises"
    /\ SweepAbort(e)
    /\ UNCHANGED <<variables, cfg, notebook, one_group_filter, gen, guard, eval, fmt, handler, kernel>>

\* the file is written whether the loop finished or was ended by an exception
WriteResults_AfterAbort ==
    /\ sweep.pc \in {"done", "aborted"}
    /\ sweep' = [sweep EXCEPT !.pc = "written", !.file = JsonDump(sweep.rag_response_dict)]
    /\ UNCHANGED <<variables, cfg, notebook, one_group_filter, gen, guard, eval, fmt, handler, kernel>>

\* the next cell, run when the loop cell has finished: json.dump(rag_response_dict, f, ...)
WriteResults ==
    /\ sweep.pc = "done"
    /\ sweep' = [sweep EXCEPT !.pc = "written", !.file = JsonDump(sweep.rag_response_dict)]
    /\ UNCHANGED <<variables, cfg, notebook, one_group_filter, gen, guard, eval, fmt, handler, kernel>>

-----------------------------------------------------------------------------
(* The evaluation notebook: the cost and latency merge loop *)

KbTypes == {"kbFixedChunk", "kbSemanticChunk"}
AmbientNames == KbTypes \cup {"us.amazon.nova-lite-v1:0"}

\* loaded_responses[k]: the inference data loaded for k
InferenceData(k) == <<"inference_data", k>>

\* final_evaluation[k] as evaluate_results leaves it: the correctness record of k
CustomEvalMetrics(k) == [correctness |-> <<"correctness", k>>]

CostFields == {"inference_cost", "latency"}

\* calculate_cost_and_latency_metrics(inference_data, model, region)
calculate_cost_and_latency_metrics(inference_data) ==
    [inference_cost |-> <<"cost", inference_data>>, latency |-> <<"latency", inference_data>>]

\* {**a, **b}: the fields of both, b's value where both have the field
DictUnion(a, b) == b @@ a

\* the key orders a loaded JSON object can have
KeyOrders == {s \in SeqsUpTo(KbTypes, Cardinality(KbTypes)) : IsInjectiveSeq(s)}

\* the notebook when the merge cell starts; `model` is a name the notebook never
\* assigns: it is unbound, or bound to whatever the kernel holds under that name
EvalInit(keys, evaluated, model) ==
    [pc |-> "merging", i |-> 1,
     loaded_keys |-> keys,
     loaded_responses |-> [k \in Range(keys) |-> InferenceData(k)],
     final_evaluation |-> [k \in evaluated |-> CustomEvalMetrics(k)],
     model |-> model,
     outcome |-> NoOutcome]

EvalIdle == EvalInit(<<>>, {}, Unbound)

\* the record the loop body reads and writes: final_evaluation[model]
MergeTarget(kb_type) == eval.model

\* one iteration of: for kb_type in loaded_responses
MergeStep ==
    /\ notebook = "evaluation"
    /\ eval.pc = "merging"
    /\ eval.i <= Len(eval.loaded_keys)
    /\ LET kb_type == eval.loaded_keys[eval.i]
           inference_data == eval.loaded_responses[kb_type]
           cost_and_latency_metrics == calculate_cost_and_latency_metrics(inference_data)
           target == MergeTarget(kb_type)
           fe == eval.final_evaluation
       IN  IF target = Unbound
             THEN eval' = [eval EXCEPT !.pc = "raised",
                                       !.outcome = Raised(NameError("model"))]
           ELSE IF target.val \notin DOMAIN fe
             THEN eval' = [eval EXCEPT !.pc = "raised",
                                       !.outcome = Raised(KeyError(target.val))]
           ELSE LET custom_eval_metrics == fe[target.val]
                    merged == DictUnion(custom_eval_metrics, cost_and_latency_metrics)
                    record == IF kb_type \notin DOMAIN fe
                                THEN merged                              \* Insert
                                ELSE DictUnion(fe[target.val], merged)   \* Update
                IN  eval' = [eval EXCEPT
                               !.final_evaluation = (target.val :> record) @@ fe,
                               !.i = eval.i + 1,
                               !.pc = IF eval.i + 1 > Len(eval.loaded_keys)
                                        THEN "done" ELSE "merging"]
    /\ UNCHANGED <<variables, cfg, notebook, one_group_filter, gen, guard, sweep, fmt, handler, kernel>>

-----------------------------------------------------------------------------
(* Two applications of format_prompt *)

FmtInit(q1, c1, q2, c2) ==
    [pc |-> "inputs", query1 |-> q1, context1 |-> c1, query2 |-> q2, context2 |-> c2,
     prompt1 |-> <<>>, prompt2 |-> <<>>]

FmtIdle == FmtInit(<<>>, <<>>, <<>>, <<>>)

FormatPrompts ==
    /\ notebook = "format"
    /\ fmt.pc = "inputs"
    /\ fmt' = [fmt EXCEPT !.pc = "formatted",
                          !.prompt1 = format_prompt(fmt.query1, fmt.context1),
                          !.prompt2 = format_prompt(fmt.query2, fmt.context2)]
    /\ UNCHANGED <<variables, cfg, notebook, one_group_filter, gen, guard, sweep, eval, handler, kernel>>

-----------------------------------------------------------------------------
(* The query-decomposition notebook: llm, a SagemakerEndpoint with ContentHandler *)

LlmPrompts == {<<"a">>, <<"a", " ">>}

\* generation_configuration, passed as model_kwargs
ModelKwargs == [temperature |-> 0, top_p |-> "0.3", max_new_tokens |-> 512,
                stop |-> <<"<|eot_id|>">>]

\* ContentHandler.transform_input: json.dumps({"inputs": prompt, "parameters": model_kwargs})
transform_input(prompt, model_kwargs) == [inputs |-> prompt, parameters |-> model_kwargs]

\* ContentHandler.transform_output: json.loads(...)["generated_text"]
transform_output(response_json) == PySubscript(response_json, "generated_text")

HandlerIdle == [pc |-> "idle", request |-> None, result |-> None, outcome |-> NoOutcome]

\* llm is called with a prompt: the handler encodes it and the endpoint is invoked
LlmInvoke(prompt) ==
    /\ notebook = "query_decomposition"
    /\ cfg.pc = "bound"
    /\ handler.pc \in {"idle", "done", "failed"}
    /\ handler' = [HandlerIdle EXCEPT !.pc = "awaiting",
                                      !.request = transform_input(prompt, ModelKwargs)]
    /\ UNCHANGED <<variables, cfg, notebook, one_group_filter, gen, guard, sweep, eval, fmt, kernel>>

\* the endpoint answers with a body that parses to `result`; the handler decodes it
LlmReturns(result) ==
    /\ handler.pc = "awaiting"
    /\ LET out == transform_output(result)
       IN  handler' = [handler EXCEPT
                         !.pc = IF out.kind = "returned" THEN "done" ELSE "failed",
                         !.result = result,
                         !.outcome = out]
    /\ UNCHANGED <<variables, cfg, notebook, one_group_filter, gen, guard, sweep, eval, fmt, kernel>>

-----------------------------------------------------------------------------
(* The comparison cells: with and without a prompt template (foundation     *)
(* models notebook), with and without query decomposition                   *)

\* what a call of retrieve_and_generate can do
CallOutcomes == {Returned(r) : r \in RagResponses} \cup {Raised(e) : e \in ServiceErrors}

\* the dict d with d[k] = value
WithKey(d, k, value) == [key \in DOMAIN d \cup {k} |-> IF key = k THEN value ELSE d[key]]

\* the arguments of retrieve_and_generate in the four comparison cells
KbRequest(query, kb_id, model_id, generation, n) ==
    [input |-> [text |-> query],
     retrieveAndGenerateConfiguration |->
        [type |-> "KNOWLEDGE_BASE",
         knowledgeBaseConfiguration |->
            [knowledgeBaseId |-> kb_id,
             modelArn |-> model_id,
             generationConfiguration |-> generation,
             retrievalConfiguration |->
                [vectorSearchConfiguration |-> [numberOfResults |-> n]]]]]

\* the same arguments with 'orchestrationConfiguration' in knowledgeBaseConfiguration
WithOrchestration(request) ==
    [request EXCEPT !.retrieveAndGenerateConfiguration.knowledgeBaseConfiguration =
        WithKey(@, "orchestrationConfiguration",
                [queryTransformationConfiguration |-> [type |-> "QUERY_DECOMPOSITION"]])]

\* the call of a cell: the request is sent, and response is bound if the call returns
Call(k, cell, client, request, outcome) ==
    [k EXCEPT !.sent = Append(@, [cell |-> cell, client |-> client, request |-> request]),
              !.response = IF outcome.kind = "returned" THEN outcome.val ELSE @]

\* "Without a Prompt Template": query is rebound, the request copies the mapping
WithoutTemplateCell(outcome) ==
    /\ notebook = "foundation_models"
    /\ kernel.pc = "ready"
    /\ Len(kernel.sent) < MaxCellRuns
    /\ LET bound == [kernel EXCEPT !.query = PyStr(ResultsQuery)]
           request == KbRequest(bound.query, bound.kb_id, bound.model_id,
                                bound.generation_configuration, bound.number_of_results)
       IN  kernel' = Call(bound, "without", cfg.client, request, outcome)
    /\ UNCHANGED <<variables, cfg, notebook, one_group_filter, gen, guard, sweep, eval, fmt, handler>>

\* the template is stored in the shared mapping instead of a copy
WithTemplateCell_InPlace(outcome) ==
    /\ notebook = "foundation_models"
    /\ kernel.pc = "ready"
    /\ Len(kernel.sent) < MaxCellRuns
    /\ LET generation == WithKey(kernel.generation_configuration, "promptTemplate",
                                 [textPromptTemplate |-> kernel.prompt_template])
           bound == [kernel EXCEPT !.generation_configuration = generation]
           request == KbRequest(bound.query, bound.kb_id, bound.model_id,
                                generation, bound.number_of_results)
       IN  kernel' = Call(bound, "with", cfg.client, request, outcome)
    /\ UNCHANGED <<variables, cfg, notebook, one_group_filter, gen, guard, sweep, eval, fmt, handler>>

\* "Using a Prompt Template": the current query, and a copy of the mapping with
\* promptTemplate added
WithTemplateCell(outcome) ==
    /\ notebook = "foundation_models"
    /\ kernel.pc = "ready"
    /\ Len(kernel.sent) < MaxCellRuns
    /\ LET generation == WithKey(kernel.generation_configuration, "promptTemplate",
                                 [textPromptTemplate |-> kernel.prompt_template])
           request == KbRequest(kernel.query, kernel.kb_id, kernel.model_id,
                                generation, kernel.number_of_results)
       IN  kernel' = Call(kernel, "with", cfg.client, request, outcome)
    /\ UNCHANGED <<variables, cfg, notebook, one_group_filter, gen, guard, sweep, eval, fmt, handler>>

\* "WITHOUT QUERY DECOMPOSITION": the client and query are rebound
WithoutDecompositionCell(outcome) ==
    /\ notebook = "query_decomposition"
    /\ kernel.pc = "ready"
    /\ Len(kernel.sent) < MaxCellRuns
    /\ LET bound == [kernel EXCEPT !.query = PyStr(CompoundQuery)]
           request == KbRequest(bound.query, bound.kb_id, bound.model_id,
                                bound.generation_configuration, bound.number_of_results)
       IN  kernel' = Call(bound, "without", Client(notebook, variables), request, outcome)
    /\ UNCHANGED <<variables, cfg, notebook, one_group_filter, gen, guard, sweep, eval, fmt, handler>>

\* model_id of the "WITH QUERY DECOMPOSITION" cell
DecompositionModelArn(v) ==
    Arn(HardCodedRegion, Lookup(v, "accountNumber").val,
        <<"inference-profile", "us.amazon.nova-pro-v1:0">>)

\* "WITH QUERY DECOMPOSITION": the client, model_id and query are rebound
WithDecompositionCell(outcome) ==
    /\ notebook = "query_decomposition"
    /\ kernel.pc = "ready"
    /\ Len(kernel.sent) < MaxCellRuns
    /\ LET bound == [kernel EXCEPT !.model_id = DecompositionModelArn(variables),
                                   !.query = PyStr(CompoundQuery)]
           request == WithOrchestration(
                          KbRequest(bound.query, bound.kb_id, bound.model_id,
                                    bound.generation_configuration,
                                    bound.number_of_results))
       IN  kernel' = Call(bound, "with", Client(notebook, variables), request, outcome)
    /\ UNCHANGED <<variables, cfg, notebook, one_group_filter, gen, guard, sweep, eval, fmt, handler>>

-----------------------------------------------------------------------------
(* Specifications *)

SweepInits ==
    {SweepInit(models, plan) :
        models \in SeqsUpTo(ModelIds, MaxModels), plan \in SeqsUpTo(CallPlans, MaxModels)}

\* a kernel that runs one of the notebooks
Init ==
    /\ notebook \in ConfiguredNotebooks \cup {"sweep", "evaluation"}
    /\ CASE notebook \in ConfiguredNotebooks ->
               /\ variables \in Configs(notebook)
               /\ cfg = CfgUnread
         [] notebook = "sweep" ->
               /\ variables \in {FullConfig(HardCodedRegion),
                                  Without(FullConfig(HardCodedRegion), LoopKey)}
               /\ cfg = ConfigCells(notebook, variables)
         [] OTHER ->
               /\ variables = FullConfig(HardCodedRegion)
               /\ cfg = ConfigCells(notebook, variables)
    /\ one_group_filter = Unbound
    /\ gen = GenIdle
    /\ guard = GuardIdle
    /\ IF notebook = "sweep"
         THEN sweep \in {w \in SweepInits : Len(w.plan) = Len(w.inference_models)}
         ELSE sweep = SweepIdle
    /\ IF notebook = "evaluation"
         THEN \E keys \in KeyOrders, model \in {Unbound} \cup {PyStr(n) : n \in AmbientNames} :
                 \E evaluated \in SUBSET Range(keys) :
                     eval = EvalInit(keys, evaluated, model)
         ELSE eval = EvalIdle
    /\ fmt = FmtIdle
    /\ handler = HandlerIdle
    /\ kernel = KernelUnbound

\* the bodies the endpoint can answer with: it answers only a call that waits for it
CellEndpointResults == IF gen.pc = "generating" THEN EndpointResults ELSE {}
LlmEndpointResults == IF handler.pc = "awaiting" THEN EndpointResults ELSE {}

Next ==
    \/ Configure
    \/ DefineMetadataFilter
    \/ \E q \in GenQueries : RunCell(q)
    \/ \E c \in GenContexts : RetrieveReturns(c)
    \/ \E e \in ServiceErrors : RetrieveRaises(e)
    \/ \E r \in CellEndpointResults : EndpointReturns(r)
    \/ \E e \in ServiceErrors : EndpointRaises(e)
    \/ \E a \in GuardArgs : GuardInvoke(a)
    \/ \E r \in RagResponses : ServiceResponds(r)
    \/ \E e \in ServiceErrors : ServiceRaises(e)
    \/ SweepStart
    \/ LoopHead
    \/ CreateReturns
    \/ \E e \in ServiceErrors : CreateRaises(e)
    \/ \E r \in ResponseLists : RagReturns(r)
    \/ \E e \in ServiceErrors : RagRaises(e)
    \/ WriteResults
    \/ MergeStep
    \/ \E p \in LlmPrompts : LlmInvoke(p)
    \/ \E r \in LlmEndpointResults : LlmReturns(r)

Spec == Init /\ [][Next]_vars

\* format_prompt applied to two bounded (query, context) pairs
InitFormat ==
    /\ notebook = "format"
    /\ variables = FullConfig(HardCodedRegion)
    /\ cfg = CfgUnread
    /\ one_group_filter = Unbound
    /\ gen = GenIdle
    /\ guard = GuardIdle
    /\ sweep = SweepIdle
    /\ eval = EvalIdle
    /\ handler = HandlerIdle
    /\ kernel = KernelUnbound
    /\ \E q1 \in Strings, c1 \in Contexts, q2 \in Strings, c2 \in Contexts :
           fmt = FmtInit(q1, c1, q2, c2)

NextFormat == FormatPrompts

SpecFormat == InitFormat /\ [][NextFormat]_vars

\* a kernel that runs the sweep notebook: the interpreter takes the next step of
\* the loop cell and runs the next cell, and every external call ends
InitSweep == Init /\ notebook = "sweep"

NextSweep ==
    \/ SweepStart
    \/ LoopHead
    \/ CreateReturns
    \/ \E e \in ServiceErrors : CreateRaises(e)
    \/ \E r \in ResponseLists : RagReturns(r)
    \/ \E e \in ServiceErrors : RagRaises(e)
    \/ WriteResults

SweepFairness ==
    /\ WF_vars(LoopHead)
    /\ WF_vars(WriteResults)
    /\ WF_vars(CreateReturns)
    /\ WF_vars(\E e \in ServiceErrors : CreateRaises(e))
    /\ WF_vars(\E r \in ResponseLists : RagReturns(r))
    /\ WF_vars(\E e \in ServiceErrors : RagRaises(e))

SpecSweep == InitSweep /\ [][NextSweep]_vars /\ SweepFairness

\* a kernel that runs a comparison notebook up to and through its comparison cells
InitCells ==
    /\ notebook \in ComparisonNotebooks
    /\ variables \in Configs(notebook)
    /\ cfg = CfgUnread
    /\ one_group_filter = Unbound
    /\ gen = GenIdle
    /\ guard = GuardIdle
    /\ sweep = SweepIdle
    /\ eval = EvalIdle
    /\ fmt = FmtIdle
    /\ handler = HandlerIdle
    /\ kernel = KernelUnbound

NextCells ==
    \/ Configure
    \/ \E outcome \in CallOutcomes : WithoutTemplateCell(outcome)
    \/ \E outcome \in CallOutcomes : WithTemplateCell(outcome)
    \/ \E outcome \in CallOutcomes : WithoutDecompositionCell(outcome)
    \/ \E outcome \in CallOutcomes : WithDecompositionCell(outcome)

SpecCells == InitCells /\ [][NextCells]_vars

-----------------------------------------------------------------------------
(* Claims *)

\* the endpoint answered in this run of the cell, with the parsed body gen.result
EndpointAnswered == gen.pc \in {"done", "failed"} /\ gen.result # None

IsDictWith(r, name) == r.kind = "dict" /\ name \in DOMAIN r.val
IsListWithText(r) ==
    r.kind = "list" /\ Len(r.val) > 0 /\ IsDictWith(r.val[1], "generated_text")

\* C1 as stated: each recognised shape gives its own field (a list gives the first
\* element's 'generated_text', a dictionary with 'generated_text' gives it, a
\* dictionary with 'generation' gives r['generation']) and every other response
\* raises an error.
C1_ResolverAsStated ==
    EndpointAnswered =>
        LET r == gen.result
        IN  /\ IsListWithText(r) => gen.outcome = Returned(r.val[1].val["generated_text"])
            /\ IsDictWith(r, "generated_text") => gen.outcome = Returned(r.val["generated_text"])
            /\ IsDictWith(r, "generation") => gen.outcome = Returned(r.val["generation"])
            /\ (~IsListWithText(r) /\ ~IsDictWith(r, "generated_text")
                   /\ ~IsDictWith(r, "generation")) => gen.outcome.kind = "raised"

\* C1 amended: as stated, but a dictionary gives r['generation'] only when it has
\* no 'generated_text'; 'generated_text' wins when both are present.
C1_Resolver ==
    EndpointAnswered =>
        LET r == gen.result
        IN  /\ IsListWithText(r) => gen.outcome = Returned(r.val[1].val["generated_text"])
            /\ IsDictWith(r, "generated_text") => gen.outcome = Returned(r.val["generated_text"])
            /\ (IsDictWith(r, "generation") /\ ~IsDictWith(r, "generated_text"))
                   => gen.outcome = Returned(r.val["generation"])
            /\ (~IsListWithText(r) /\ ~IsDictWith(r, "generated_text")
                   /\ ~IsDictWith(r, "generation")) => gen.outcome.kind = "raised"

\* {"generated_text": "X", "generation": "Y"} was answered and "X" was returned
C1_Witness ==
    /\ EndpointAnswered
    /\ gen.result = JDict([generated_text |-> "X", generation |-> "Y"])
    /\ gen.outcome = Returned("X")

SweepEnded == sweep.pc \in {"done", "aborted"}

\* C3: when the sweep ends, every model whose own calls do not raise has its
\* responses under its key in rag_response_dict, whichever other calls raise.
C3_NoDroppedModel ==
    SweepEnded =>
        \A i \in 1..Len(sweep.inference_models) :
            sweep.plan[i] = "ok"
                => sweep.inference_models[i] \in Range(sweep.rag_response_dict.keys)

\* C4: when all calls succeed, rag_with_flotorch was called once per entry of
\* inference_models, in order, with the inferencer created for that model in that
\* iteration; for a list without duplicates the keys of rag_response_dict are the
\* models of the list and each maps to the responses its own call returned.
C4_OncePerModel ==
    sweep.pc = "done" =>
        LET models == sweep.inference_models
            d == sweep.rag_response_dict
        IN  /\ Len(sweep.calls) = Len(models)
            /\ \A i \in 1..Len(models) :
                   /\ sweep.calls[i].pos = i
                   /\ sweep.calls[i].model = models[i]
                   /\ sweep.calls[i].inferencer = [model |-> models[i], iteration |-> i]
            /\ IsInjectiveSeq(models) =>
                   /\ Range(d.keys) = Range(models)
                   /\ DOMAIN d.vals = Range(models)
                   /\ \A i \in 1..Len(models) : d.vals[models[i]] = sweep.calls[i].responses

\* a sweep over three different models ended with all of them stored
C4_Witness ==
    /\ sweep.pc = "done"
    /\ Len(sweep.inference_models) = 3
    /\ IsInjectiveSeq(sweep.inference_models)
    /\ Len(sweep.rag_response_dict.keys) = 3

\* s without the later occurrences of its elements
RECURSIVE Dedup(_)
Dedup(s) ==
    IF Len(s) = 0 THEN <<>>
    ELSE LET front == Dedup(SubSeq(s, 1, Len(s) - 1))
         IN  IF s[Len(s)] \in Range(front) THEN front ELSE Append(front, s[Len(s)])

\* the last position up to n of model m in the list
LastPosition(m, n) ==
    CHOOSE j \in 1..n : sweep.inference_models[j] = m
                        /\ \A h \in (j + 1)..n : sweep.inference_models[h] # m

\* C5: at most one external call is in flight; while the calls of position i are
\* made, every earlier position has returned and its result is stored; the keys
\* of rag_response_dict are in the order of the model list.
C5_Sequential ==
    /\ sweep.inFlight <= 1
    /\ sweep.pc \in {"creating", "running"} =>
           /\ sweep.inFlight = 1
           /\ \A j \in 1..(sweep.i - 1) :
                  /\ sweep.calls[j].responses \in ResponseLists
                  /\ sweep.inference_models[j] \in DOMAIN sweep.rag_response_dict.vals
                  /\ sweep.rag_response_dict.vals[sweep.inference_models[j]]
                         = sweep.calls[LastPosition(sweep.inference_models[j], sweep.i - 1)].responses
    /\ sweep.pc \in {"loop", "creating", "running", "done", "aborted"} =>
           sweep.rag_response_dict.keys
               = Dedup(SubSeq(sweep.inference_models, 1, sweep.i - 1))

\* the call of the third model is in flight and two different models are stored
C5_Witness ==
    /\ sweep.pc = "running"
    /\ sweep.i = 3
    /\ Len(sweep.rag_response_dict.keys) = 2

\* C6: two (query, context) pairs that differ in the query or in the context list
\* give different prompts.
C6_Injective ==
    (fmt.pc = "formatted" /\ (fmt.query1 # fmt.query2 \/ fmt.context1 # fmt.context2))
        => fmt.prompt1 # fmt.prompt2

\* the equality constraints of the notebooks' filter
FilterPairs == << <<"docType", StrValue("10K Report")>>, <<"year", IntValue("2023")>> >>

\* C7: the metadata filter has a single top-level 'andAll' whose list holds exactly
\* one 'equals' clause {key, value} per pair, in order, and nothing else; for
\* (docType, '10K Report'), (year, 2023) that is two clauses.
C7_FilterShape ==
    one_group_filter # Unbound =>
        /\ one_group_filter.kind = "dict"
        /\ DOMAIN one_group_filter.val = {"andAll"}
        /\ Len(one_group_filter.val.andAll) = Len(FilterPairs)
        /\ Len(one_group_filter.val.andAll) = 2
        /\ \A i \in 1..Len(FilterPairs) :
               LET clause == one_group_filter.val.andAll[i]
               IN  /\ DOMAIN clause = {"equals"}
                   /\ DOMAIN clause.equals = {"key", "value"}
                   /\ clause.equals.key = FilterPairs[i][1]
                   /\ clause.equals.value = FilterPairs[i][2]

\* the filter was defined and a retrieval request carrying it was sent
C7_Witness ==
    /\ one_group_filter # Unbound
    /\ gen.pc = "retrieving"
    /\ gen.request.filter = one_group_filter

GuardRequestSent == guard.apiCalls = 1
GuardVectorSearch ==
    guard.request.retrieveAndGenerateConfiguration.knowledgeBaseConfiguration
        .retrievalConfiguration.vectorSearchConfiguration

\* every request of retrieve_from_bedrock carries one_group_filter as it is
RetrieveCarriesFilter ==
    gen.pc = "retrieving" =>
        /\ one_group_filter # Unbound
        /\ gen.request.op = "retrieve"
        /\ gen.request.filter = one_group_filter

\* C8 as stated: whatever metadata_filter the caller passes, the request carries
\* exactly that value as its filter, and only a caller that passed no filter gets
\* a request without the filter field; retrieve_from_bedrock sends one_group_filter.
C8_VerbatimAsStated ==
    /\ GuardRequestSent =>
           /\ guard.args.metadata_filter # None =>
                  /\ "filter" \in DOMAIN GuardVectorSearch
                  /\ GuardVectorSearch.filter = guard.args.metadata_filter
           /\ "filter" \notin DOMAIN GuardVectorSearch => guard.args.metadata_filter = None
    /\ RetrieveCarriesFilter

\* C8 amended: a non-empty metadata_filter is carried as it is; the request has no
\* filter field exactly when the caller passed None or an empty filter;
\* retrieve_from_bedrock sends one_group_filter.
C8_Verbatim ==
    /\ GuardRequestSent =>
           /\ Truthy(guard.args.metadata_filter) =>
                  /\ "filter" \in DOMAIN GuardVectorSearch
                  /\ GuardVectorSearch.filter = guard.args.metadata_filter
           /\ "filter" \notin DOMAIN GuardVectorSearch
                  <=> guard.args.metadata_filter \in {None, EmptyDict}
    /\ RetrieveCarriesFilter

\* the notebook's call: one_group_filter was passed and sent
C8_Witness ==
    /\ GuardRequestSent
    /\ one_group_filter # Unbound
    /\ guard.args.metadata_filter = one_group_filter
    /\ GuardVectorSearch.filter = one_group_filter

\* C9: a call that returns made exactly one retrieve_and_generate call and returns
\* the service's response as it is.
C9_OneCallUnchanged ==
    guard.pc = "returned" =>
        /\ guard.apiCalls = 1
        /\ guard.outcome = Returned(guard.response)

\* a call returned a response with its answer text and a citation
C9_Witness ==
    /\ guard.pc = "returned"
    /\ guard.response.citations = <<"chunk-1">>
    /\ guard.outcome.kind = "returned"

IsWrapped(outcome, e) ==
    /\ outcome.kind = "raised"
    /\ outcome.val.type = "RuntimeError"
    /\ Contains(outcome.val.msg, e.msg)

\* C10: an error raised by an external call leaves retrieve_from_bedrock,
\* generate_response and retrieve_and_generate_with_conditional_guardrails as a
\* RuntimeError whose message contains the original message.
C10_ErrorsWrapped ==
    /\ (gen.pc = "failed" /\ gen.error \in ServiceErrors) => IsWrapped(gen.outcome, gen.error)
    /\ (guard.pc = "raised" /\ guard.error \in ServiceErrors)
           => IsWrapped(guard.outcome, guard.error)

\* C11: a failed external call ends the operation without a retry.  When retrieve
\* fails the run has sent one retrieve request and no endpoint request; when
\* invoke_endpoint fails the run has sent one request to each service; when
\* retrieve_and_generate fails the call has sent one request.  The endpoint is
\* only invoked at the step where retrieve returns, and after a failure the only
\* step is a new run of the cell or a new call of the function.
C11_NoRetry ==
    [][/\ (gen.pc = "retrieving" /\ gen'.pc = "failed")
              => (gen'.retrieveCalls = 1 /\ gen'.endpointCalls = 0)
       /\ (gen.pc = "generating" /\ gen'.pc = "failed")
              => (gen'.retrieveCalls = 1 /\ gen'.endpointCalls = 1)
       /\ gen'.endpointCalls > gen.endpointCalls
              => (gen.pc = "retrieving" /\ gen'.pc = "generating" /\ gen'.error = None)
       /\ (gen.pc = "failed" /\ gen' # gen)
              => (gen'.runs = gen.runs + 1 /\ gen'.endpointCalls = 0)
       /\ (guard.pc = "awaiting" /\ guard'.pc = "raised") => guard'.apiCalls = 1
       /\ (guard.pc = "raised" /\ guard' # guard) => guard'.calls = guard.calls + 1
      ]_vars

\* retrieve failed in the second run of the cell: one retrieve request, no endpoint one
C11_Witness ==
    /\ gen.pc = "failed"
    /\ gen.runs = 2
    /\ gen.error \in ServiceErrors
    /\ gen.outcome = RetrieveExcept(gen.error)
    /\ gen.retrieveCalls = 1
    /\ gen.endpointCalls = 0

\* the function was called with the arguments guard.args
GuardCalled == guard.pc # "idle"

\* C12: a call with use_guardrails true and a guardrail_id that is None or empty
\* raises ValueError, and no request is built or sent.
C12_MissingIdRejected ==
    (GuardCalled /\ guard.args.use_guardrails
         /\ guard.args.guardrail_id \in {None, PyStr("")})
        => /\ guard.pc = "raised"
           /\ guard.outcome.kind = "raised"
           /\ guard.outcome.val.type = "ValueError"
           /\ guard.apiCalls = 0
           /\ guard.request = None

\* a call with use_guardrails true and guardrail_id "" was rejected
C12_Witness ==
    /\ guard.pc = "raised"
    /\ guard.args.use_guardrails
    /\ guard.args.guardrail_id = PyStr("")
    /\ guard.args.guardrail_version = PyStr("1")
    /\ guard.outcome = Raised(ValueErrorGuardrailId)
    /\ guard.apiCalls = 0

GuardGenerationConfiguration ==
    guard.request.retrieveAndGenerateConfiguration.knowledgeBaseConfiguration
        .generationConfiguration

\* C13: a call with use_guardrails true and no guardrail_version is rejected
\* without a request, and every request sent with a guardrailConfiguration
\* carries both guardrailId and guardrailVersion.
C13_VersionRequired ==
    /\ (GuardCalled /\ guard.args.use_guardrails
           /\ guard.args.guardrail_version \in {None, PyStr("")})
          => (guard.pc = "raised" /\ guard.apiCalls = 0)
    /\ (GuardRequestSent /\ "guardrailConfiguration" \in DOMAIN GuardGenerationConfiguration)
          => {"guardrailId", "guardrailVersion"}
                 \subseteq DOMAIN GuardGenerationConfiguration.guardrailConfiguration

\* C14: a request that was sent contains generationConfiguration.guardrailConfiguration
\* if and only if use_guardrails is true, whatever guardrail_id and guardrail_version
\* were passed, and when present its guardrailId is the guardrail_id argument.
C14_GuardrailsIffRequested ==
    GuardRequestSent =>
        /\ "guardrailConfiguration" \in DOMAIN GuardGenerationConfiguration
               <=> guard.args.use_guardrails
        /\ "guardrailConfiguration" \in DOMAIN GuardGenerationConfiguration
               => GuardGenerationConfiguration.guardrailConfiguration.guardrailId
                      = guard.args.guardrail_id

\* use_guardrails false with an id and a version: a request without guardrails was sent
C14_Witness ==
    /\ GuardRequestSent
    /\ ~guard.args.use_guardrails
    /\ guard.args.guardrail_id = PyStr("gr-1")
    /\ guard.args.guardrail_version = PyStr("1")
    /\ "guardrailConfiguration" \notin DOMAIN GuardGenerationConfiguration

\* m has the fields of a and of b, with b's value where both have the field
IsUnionLaterWins(m, a, b) ==
    /\ DOMAIN m = DOMAIN a \cup DOMAIN b
    /\ \A f \in DOMAIN b : m[f] = b[f]
    /\ \A f \in DOMAIN a \ DOMAIN b : m[f] = a[f]

\* C15: when the merge loop has ended, the record of every evaluated key is the
\* union of its correctness record and its cost and latency record: a field of
\* both has the cost and latency value, a field of only one keeps its value.
C15_UnionLaterWins ==
    eval.pc \in {"done", "raised"} =>
        \A k \in DOMAIN eval.final_evaluation \cap DOMAIN eval.loaded_responses :
            IsUnionLaterWins(eval.final_evaluation[k],
                             CustomEvalMetrics(k),
                             calculate_cost_and_latency_metrics(eval.loaded_responses[k]))

\* C16: once the configuration cells have run, the region of the service client,
\* the region in the model ARN and the region in the guardrail ARN are all the
\* configured regionName.
C16_RegionFromConfig ==
    (cfg.pc = "bound" /\ "regionName" \in DOMAIN variables) =>
        /\ cfg.client.region_name = variables.regionName
        /\ cfg.model_arn # None => cfg.model_arn.region = variables.regionName
        /\ cfg.guardrail_arn # None => cfg.guardrail_arn.region = variables.regionName

\* the keys that the notebook reads from variables and that variables does not have
MissingKeys == {k \in Range(ReadKeys(notebook)) : k \notin DOMAIN variables}

\* no request was built and no external call was made
NoRequestSent ==
    /\ gen.request = None /\ gen.retrieveCalls = 0 /\ gen.endpointCalls = 0
    /\ guard.request = None /\ guard.apiCalls = 0
    /\ sweep.calls = <<>> /\ sweep.pc \notin {"creating", "running"}
    /\ handler.request = None

\* C17: when a key the notebook reads is missing from variables, no request is ever
\* built or sent, the cell that reads the key ends with the KeyError of a missing
\* key, and no client, ARN or other global is bound from a default value; in the
\* sweep a missing role ARN ends the loop with that KeyError at the first iteration.
C17_MissingKeyFails ==
    /\ MissingKeys # {} =>
           /\ NoRequestSent
           /\ cfg.pc \in {"unread", "raised"}
           /\ cfg.pc = "raised" =>
                  /\ \E k \in MissingKeys : cfg.outcome = Raised(KeyError(k))
                  /\ cfg.client = None /\ cfg.model_arn = None /\ cfg.guardrail_arn = None
    /\ (notebook = "sweep" /\ LoopKey \notin DOMAIN variables) =>
           /\ NoRequestSent
           /\ sweep.pc \in {"ready", "loop", "done", "written", "aborted"}
           /\ sweep.pc \in {"done", "written"} => sweep.inference_models = <<>>
           /\ sweep.pc = "aborted" => sweep.outcome = Raised(KeyError(LoopKey))

\* variables.json without guardrail_id: the guardrails notebook stopped at the lookup
C17_Witness ==
    /\ notebook = "guardrails"
    /\ cfg.pc = "raised"
    /\ cfg.outcome = Raised(KeyError("guardrail_id"))
    /\ guard.apiCalls = 0

\* C18: no step of a notebook (configuration cells, request building, retrieval,
\* generation, sweep, merge) adds, removes or changes a key of variables.
C18_VariablesImmutable == [][variables' = variables]_vars

\* a whole run of the retrieve/format/generate cell ended with variables as loaded
C18_Witness ==
    /\ notebook = "metadata_filtering"
    /\ cfg.pc = "bound"
    /\ gen.pc = "done"
    /\ variables = FullConfig("us-east-1")

\* the endpoint answered a call of llm with the parsed body handler.result
HandlerAnswered == handler.pc \in {"done", "failed"}

IsListOfTextRecords(r) ==
    r.kind = "list" /\ Len(r.val) > 0
        /\ \A i \in 1..Len(r.val) : IsDictWith(r.val[i], "generated_text")

\* C19: for every response that is a list of {generated_text} records, a dictionary
\* with 'generated_text' or a dictionary with 'generation', transform_output returns
\* the text that generate_response's resolver returns; for every other response
\* both raise.
C19_SameShapes ==
    HandlerAnswered =>
        LET r == handler.result
            recognised == \/ IsListOfTextRecords(r)
                          \/ IsDictWith(r, "generated_text")
                          \/ IsDictWith(r, "generation")
        IN  IF recognised
              THEN /\ ResolveField(r).kind = "returned"
                   /\ handler.outcome = ResolveField(r)
              ELSE /\ ResolveField(r).kind = "raised"
                   /\ handler.outcome.kind = "raised"

\* generate_response was called in this run of the cell and an exception left it
GenerateFailed == gen.pc = "failed" /\ gen.endpointCalls = 1

C21_MergeComplete ==
    /\ eval.pc = "done" =>
           \A k \in Range(eval.loaded_keys) :
               /\ k \in DOMAIN eval.final_evaluation
               /\ \A f \in DOMAIN CustomEvalMetrics(k) :
                      /\ f \in DOMAIN eval.final_evaluation[k]
                      /\ eval.final_evaluation[k][f] = CustomEvalMetrics(k)[f]
               /\ \A f \in CostFields :
                      /\ f \in DOMAIN eval.final_evaluation[k]
                      /\ eval.final_evaluation[k][f]
                             = calculate_cost_and_latency_metrics(eval.loaded_responses[k])[f]
    /\ Range(eval.loaded_keys) \subseteq DOMAIN eval.final_evaluation => eval.pc # "raised"

\* the result file exists
FileWritten == sweep.file # NoFile

\* C22: a result file exists only when the loop has finished for every entry of
\* inference_models: no call raised, the file has one member per model of the
\* list, in the order of the list, and the value of a member is the list of
\* results that the last call for that model returned; an aborted sweep has no file.
C22_FileComplete ==
    /\ FileWritten =>
           LET models == sweep.inference_models
               members == sweep.file.val
           IN  /\ sweep.i = Len(models) + 1
               /\ \A i \in 1..Len(models) : sweep.plan[i] = "ok"
               /\ Len(sweep.calls) = Len(models)
               /\ [i \in 1..Len(members) |-> members[i][1]] = Dedup(models)
               /\ \A i \in 1..Len(members) :
                      members[i][2]
                          = sweep.calls[LastPosition(members[i][1], Len(models))].responses
    /\ sweep.pc = "aborted" => ~FileWritten

\* the file of a sweep over three different models was written
C22_Witness ==
    /\ FileWritten
    /\ Len(sweep.inference_models) = 3
    /\ Len(sweep.file.val) = 3

\* C23: a list response is resolved through its first element alone: the text is
\* the first element's 'generated_text' and the call fails when the first element
\* has none, whatever the later elements are; a dictionary with both fields gives
\* 'generated_text'; 'generation' is given only when 'generated_text' is absent.
C23_FixedPriority ==
    EndpointAnswered =>
        LET r == gen.result
        IN  /\ (r.kind = "list" /\ Len(r.val) > 0) =>
                   IF IsDictWith(r.val[1], "generated_text")
                     THEN gen.outcome = Returned(r.val[1].val["generated_text"])
                     ELSE gen.outcome.kind = "raised"
            /\ (IsDictWith(r, "generated_text") /\ IsDictWith(r, "generation"))
                   => gen.outcome = Returned(r.val["generated_text"])
            /\ (r.kind = "dict" /\ gen.outcome.kind = "returned"
                   /\ ~IsDictWith(r, "generated_text"))
                   => (IsDictWith(r, "generation") /\ gen.outcome = Returned(r.val["generation"]))

\* a list of two records with different texts gave the text of the first
C23_Witness ==
    /\ EndpointAnswered
    /\ gen.result = JList(<<JDict([generated_text |-> "X"]), JDict([generated_text |-> "Y"])>>)
    /\ gen.outcome = Returned("X")

\* the request that the arguments of a call ask for, written from the arguments alone
RequestOfArguments(a) ==
    LET search == IF a.metadata_filter \in {None, EmptyDict}
                    THEN [numberOfResults |-> 5]
                    ELSE [numberOfResults |-> 5, filter |-> a.metadata_filter]
        template == [textPromptTemplate |-> TextPromptTemplate]
        guardrail == IF a.guardrail_version \in {None, PyStr("")}
                       THEN [guardrailId |-> a.guardrail_id]
                       ELSE [guardrailId |-> a.guardrail_id,
                             guardrailVersion |-> a.guardrail_version]
        generation == IF a.use_guardrails
                        THEN [promptTemplate |-> template, guardrailConfiguration |-> guardrail]
                        ELSE [promptTemplate |-> template]
    IN  [input |-> [text |-> a.query],
         retrieveAndGenerateConfiguration |->
             [type |-> "KNOWLEDGE_BASE",
              knowledgeBaseConfiguration |->
                  [knowledgeBaseId |-> a.knowledge_base_id,
                   modelArn |-> a.model_arn,
                   retrievalConfiguration |-> [vectorSearchConfiguration |-> search],
                   generationConfiguration |-> generation]]]

\* C24: whatever calls came before, the request a call sends is the one its own
\* arguments ask for: a call with use_guardrails false sends no
\* guardrailConfiguration and a call without a filter sends no filter, also right
\* after a call that had them; and a call leaves the caller's filter as it was.
C24_HistoryIndependent ==
    [][(guard'.calls = guard.calls + 1) =>
          /\ one_group_filter' = one_group_filter
          /\ guard'.apiCalls = 1 =>
                 /\ guard'.request = RequestOfArguments(guard'.args)
                 /\ ~guard'.args.use_guardrails =>
                        "guardrailConfiguration" \notin DOMAIN
                            guard'.request.retrieveAndGenerateConfiguration
                                .knowledgeBaseConfiguration.generationConfiguration
                 /\ ~Truthy(guard'.args.metadata_filter) =>
                        "filter" \notin DOMAIN
                            guard'.request.retrieveAndGenerateConfiguration
                                .knowledgeBaseConfiguration.retrievalConfiguration
                                .vectorSearchConfiguration
      ]_vars

\* a call without guardrails and without a filter, right after a call with both,
\* sent a request with neither
C24_Witness ==
    /\ GuardRequestSent
    /\ guard.earlier = [guardrails |-> TRUE, filter |-> TRUE]
    /\ ~guard.args.use_guardrails
    /\ guard.args.metadata_filter = None
    /\ "guardrailConfiguration" \notin DOMAIN GuardGenerationConfiguration
    /\ "filter" \notin DOMAIN GuardVectorSearch

GuardKbConfiguration ==
    guard.request.retrieveAndGenerateConfiguration.knowledgeBaseConfiguration

\* C25: every request sent has type KNOWLEDGE_BASE, the knowledgeBaseId and the
\* modelArn of the arguments, the query as its input text, numberOfResults 5 and
\* the fixed textPromptTemplate, whatever the filter and guardrail arguments are.
C25_FixedFields ==
    GuardRequestSent =>
        /\ DOMAIN guard.request = {"input", "retrieveAndGenerateConfiguration"}
        /\ guard.request.input = [text |-> guard.args.query]
        /\ DOMAIN guard.request.retrieveAndGenerateConfiguration
               = {"type", "knowledgeBaseConfiguration"}
        /\ guard.request.retrieveAndGenerateConfiguration.type = "KNOWLEDGE_BASE"
        /\ GuardKbConfiguration.knowledgeBaseId = guard.args.knowledge_base_id
        /\ GuardKbConfiguration.modelArn = guard.args.model_arn
        /\ GuardVectorSearch.numberOfResults = 5
        /\ GuardGenerationConfiguration.promptTemplate
               = [textPromptTemplate |-> TextPromptTemplate]

\* a call on the second knowledge base with a filter and a guardrail sent its request
C25_Witness ==
    /\ GuardRequestSent
    /\ guard.args.knowledge_base_id = "kbSemanticChunk"
    /\ guard.args.use_guardrails
    /\ Truthy(guard.args.metadata_filter)
    /\ GuardKbConfiguration.knowledgeBaseId = "kbSemanticChunk"
    /\ GuardVectorSearch.numberOfResults = 5

\* the runs of a comparison cell, as positions of kernel.sent
SentBy(cell) == {i \in 1..Len(kernel.sent) : kernel.sent[i].cell = cell}

SentKb(i) == kernel.sent[i].request.retrieveAndGenerateConfiguration.knowledgeBaseConfiguration

\* the request has the knowledge base, model, result count and inference
\* configuration that the configuration cell set, and the given query
SentAsConfigured(i, query) ==
    /\ kernel.sent[i].request.input = [text |-> PyStr(query)]
    /\ kernel.sent[i].request.retrieveAndGenerateConfiguration.type = "KNOWLEDGE_BASE"
    /\ SentKb(i).knowledgeBaseId = PyStr(variables.kbSemanticChunk)
    /\ SentKb(i).modelArn = ModelArn(notebook, variables)
    /\ SentKb(i).retrievalConfiguration.vectorSearchConfiguration = [numberOfResults |-> 5]
    /\ SentKb(i).generationConfiguration.inferenceConfig
           = generation_configuration(notebook).inferenceConfig

\* C26 as stated: the two cells send the same two requests in every order, which
\* differ by promptTemplate only, and generation_configuration is unchanged.
C26_SameTwoRequests ==
    (notebook = "foundation_models" /\ kernel.pc = "ready") =>
        /\ kernel.generation_configuration = generation_configuration(notebook)
        /\ \A i, j \in 1..Len(kernel.sent) :
              /\ kernel.sent[i].cell = kernel.sent[j].cell
                    => kernel.sent[i].request = kernel.sent[j].request
              /\ (i \in SentBy("without") /\ j \in SentBy("with"))
                    => /\ kernel.sent[j].request.input = kernel.sent[i].request.input
                       /\ SentKb(j) = [SentKb(i) EXCEPT !.generationConfiguration =
                                          WithKey(@, "promptTemplate",
                                                  SentKb(j).generationConfiguration.promptTemplate)]

\* C26 (amended): the requests of the two cells have the configured knowledge
\* base, model, result count and inference configuration; only the second has a
\* promptTemplate; generation_configuration is never changed; the first cell
\* always sends its own query, and the second sends that query once the first
\* has run, and the query of the previous section before that.
C26_SameAfterFirstCell ==
    (notebook = "foundation_models" /\ kernel.pc = "ready") =>
        /\ kernel.generation_configuration = generation_configuration(notebook)
        /\ \A i \in SentBy("without") :
              /\ SentAsConfigured(i, ResultsQuery)
              /\ DOMAIN SentKb(i).generationConfiguration = {"inferenceConfig"}
        /\ \A i \in SentBy("with") :
              /\ SentAsConfigured(i, IF \E j \in SentBy("without") : j < i
                                       THEN ResultsQuery ELSE NuancedQuery)
              /\ DOMAIN SentKb(i).generationConfiguration
                     = {"inferenceConfig", "promptTemplate"}
              /\ SentKb(i).generationConfiguration.promptTemplate
                     = [textPromptTemplate |-> PyStr(prompt_template)]

\* both cells ran in notebook order and the mapping has no promptTemplate
C26_Witness ==
    /\ notebook = "foundation_models"
    /\ Len(kernel.sent) = 2
    /\ kernel.sent[1].cell = "without"
    /\ kernel.sent[2].cell = "with"
    /\ kernel.sent[2].request.input.text = PyStr(ResultsQuery)
    /\ "promptTemplate" \in DOMAIN SentKb(2).generationConfiguration
    /\ "promptTemplate" \notin DOMAIN kernel.generation_configuration

\* C27: the request of the second cell is the request of the first with
\* orchestrationConfiguration added, and every run of the first cell sends the
\* request of the configured globals, whether or not the second cell has run.
C27_DifferOnlyByOrchestration ==
    (notebook = "query_decomposition" /\ kernel.pc = "ready") =>
        /\ \A i \in SentBy("without") :
              /\ SentAsConfigured(i, CompoundQuery)
              /\ DOMAIN SentKb(i) = {"knowledgeBaseId", "modelArn", "generationConfiguration",
                                     "retrievalConfiguration"}
        /\ \A i \in SentBy("without"), j \in SentBy("with") :
              /\ kernel.sent[j].request.input = kernel.sent[i].request.input
              /\ SentKb(j) = WithKey(SentKb(i), "orchestrationConfiguration",
                                     [queryTransformationConfiguration |->
                                         [type |-> "QUERY_DECOMPOSITION"]])

\* the loop cell has ended: with the file written, or with an exception
SweepStopped == sweep.pc \in {"written", "aborted"}

\* the list positions whose rag_with_flotorch call has been issued
CalledPositions == {sweep.calls[c].pos : c \in 1..Len(sweep.calls)}

\* one call at most for a list entry, in list order, none beyond the failing entry
AtMostOneCallPerEntry ==
    /\ Len(sweep.calls) <= Len(sweep.inference_models)
    /\ \A c \in 1..Len(sweep.calls) : sweep.calls[c].pos = c
    /\ sweep.pc = "aborted" => Len(sweep.calls) <= sweep.i

\* how the sweep has stopped: every model stored and the file written, or
\* aborted at the first entry whose iteration fails, the earlier ones stored
StoppedAsClaimed ==
    /\ sweep.pc = "written" =>
          /\ \A m \in Range(sweep.inference_models) : m \in Range(sweep.rag_response_dict.keys)
          /\ FileWritten
    /\ sweep.pc = "aborted" =>
          /\ sweep.i \in 1..Len(sweep.inference_models)
          /\ sweep.outcome.kind = "raised"
          /\ \A k \in 1..(sweep.i - 1) :
                /\ sweep.plan[k] = "ok"
                /\ sweep.inference_models[k] \in Range(sweep.rag_response_dict.keys)
          /\ sweep.plan[sweep.i] # "ok" \/ LoopKey \notin DOMAIN variables
          /\ ~FileWritten

\* C28: once the loop is entered the sweep stops, written or aborted at the
\* first failing entry, and no list entry gets more than one rag_with_flotorch call.
C28_SweepTerminates ==
    /\ [](AtMostOneCallPerEntry /\ StoppedAsClaimed)
    /\ (sweep.pc = "loop") ~> SweepStopped

\* a sweep of the longest list ended with the file written, one call per entry
C28_Witness ==
    /\ sweep.pc = "written"
    /\ Len(sweep.inference_models) = MaxModels
    /\ Len(sweep.calls) = MaxModels

=============================================================================
